---- MODULE Spec2Model ----
(***************************************************************************)
(* github-trending: the scheduling loop of main.rs (main, main_loop), the  *)
(* record store behind is_repo_posted / mark_posted_repo, the denylist     *)
(* filter and the length-budgeted content composers.                       *)
(*                                                                         *)
(* Strings.  A Rust String is modelled as the sequence of its grapheme     *)
(* clusters; each cluster is a symbol (a TLA+ string) with a UTF-8 byte    *)
(* width.  s.len() is the sum of the widths (ByteLen), and                 *)
(* s.graphemes(true).count() is the length of the sequence (Len).          *)
(*                                                                         *)
(* usize.  A usize value v is modelled by the integer v when v < 2^63 and  *)
(* by v - 2^64 (a negative integer) otherwise, so that a wrapped           *)
(* subtraction a - b with a < b is the negative integer a - b, which       *)
(* stands for 2^64 - (b - a).  ULess is the unsigned comparison on that    *)
(* representation.  With overflow checks (debug profile) the subtraction   *)
(* panics instead; the build profile is a parameter of the model.          *)
(***************************************************************************)
EXTENDS Integers, Sequences, FiniteSets, TLC

(***************************************************************************)
(* Bounds of the model.                                                    *)
(***************************************************************************)
\* the clock stops the model at this time (seconds)
MaxTime == 4
\* a fetch returns at most this many candidates
MaxFetch == 2
\* raw descriptions of the truncation specification have at most this many graphemes
MaxDescLen == 5
\* budgets of the truncation specification range over 0..MaxBudget
MaxBudget == 7

(***************************************************************************)
(* Program constants (main.rs 24-31).                                      *)
(***************************************************************************)
TWEET_LENGTH == 280
TOOT_LENGTH == 500
BLUESKY_POST_LENGTH == 300
MASTODON_FIXED_URL_LENGTH == 23
ZSXQ_LENGTH == 10000
WEIBO_LENGTH == 5000
TELEGRAM_BOT_LENGTH == 4096

(***************************************************************************)
(* Strings                                                                 *)
(***************************************************************************)
\* UTF-8 width of one grapheme cluster: the star emoji U+2B50 U+FE0F is one
\* cluster of 6 bytes, a CJK character or full-width colon is 3 bytes, an
\* accented Latin letter 2 bytes, everything else here is ASCII.
Width(g) ==
    CASE g = "STAR" -> 6
      [] g = "CJK" -> 3
      [] g = "E_ACUTE" -> 2
      [] OTHER -> 1

RECURSIVE WidthSum(_, _, _)
\* the widths of s[lo..hi] added up, by halves
WidthSum(s, lo, hi) ==
    IF lo > hi THEN 0
    ELSE IF lo = hi THEN Width(s[lo])
    ELSE LET mid == (lo + hi) \div 2
         IN  WidthSum(s, lo, mid) + WidthSum(s, mid + 1, hi)

\* String::len(): the length in bytes
ByteLen(s) == WidthSum(s, 1, Len(s))

\* a string of n copies of the cluster g
Rep(n, g) == [i \in 1..n |-> g]

\* Iterator::take(n) on the clusters of s, n a usize (negative: n >= 2^63)
Take(s, n) == IF n < 0 \/ n >= Len(s) THEN s ELSE SubSeq(s, 1, n)

\* a < b on usize
ULess(a, b) == IF (a < 0) = (b < 0) THEN a < b ELSE b < 0

DigitChar(d) == SubSeq(<<"0", "1", "2", "3", "4", "5", "6", "7", "8", "9">>, d + 1, d + 1)

RECURSIVE Decimal(_)
\* Display for usize: the decimal digits of n
Decimal(n) == IF n < 10 THEN DigitChar(n) ELSE Decimal(n \div 10) \o DigitChar(n % 10)

\* the result of an operation that may panic
Panic == [panic |-> TRUE]
Value(v) == [panic |-> FALSE, value |-> v]

\* a - b on usize: panics on underflow when overflow checks are compiled in,
\* wraps otherwise
UsizeSub(a, b, overflow_checks) ==
    IF a >= b \/ ~overflow_checks THEN Value(a - b) ELSE Panic

(***************************************************************************)
(* Repo (main.rs 123-136) and the candidates of the model                  *)
(***************************************************************************)
\* "github.com"
GithubCom == <<"g", "i", "t", "h", "u", "b", ".", "c", "o", "m">>
\* "https://github.com/"
GithubUrl == <<"h", "t", "t", "p", "s", ":", "/", "/">> \o GithubCom \o <<"/">>

\* The candidates a fetch may return.  1: a short name.  2: the longest
\* author (39) and name (100) GitHub allows.
Candidates ==
    <<[author |-> <<"a", "c", "m", "e">>, name |-> <<"w", "i", "d", "g", "e", "t">>,
       description |-> <<"A", " ", "F", "a", "s", "t">>, stars |-> 42],
      [author |-> Rep(39, "a"), name |-> Rep(100, "n"),
       description |-> <<"b", "i", "g">>, stars |-> 123456]>>

\* a repository whose author equals its name
SameName ==
    [author |-> <<"z", "e", "d">>, name |-> <<"z", "e", "d">>,
     description |-> <<>>, stars |-> 0]

\* a repository whose prefix, stars and url add up to exactly TWEET_LENGTH bytes
ExactFit ==
    [author |-> Rep(23, "a"), name |-> Rep(100, "n"),
     description |-> <<"f", "a", "s", "t">>, stars |-> 77]

CandidateIds == 1..Len(Candidates)

\* Repo::get_url
get_url(repo) == GithubUrl \o repo.author \o <<"/">> \o repo.name

make_repo_title(repo) ==
    IF repo.author # repo.name
    THEN repo.author \o <<" ", "/", " ">> \o repo.name
    ELSE repo.name

make_post_prefix(repo) == make_repo_title(repo) \o <<":", " ">>

make_post_stars(repo) == <<"STAR">> \o Decimal(repo.stars)

make_post_url(repo) == <<" ">> \o GithubUrl \o repo.author \o <<"/">> \o repo.name

\* the url block of make_weibo: two newlines, then four CJK characters and a
\* full-width colon (3 bytes each)
weibo_url(repo) ==
    <<"LF", "LF", "CJK", "CJK", "CJK", "CJK", "CJK">> \o GithubCom
        \o <<"/">> \o repo.author \o <<"/">> \o repo.name

\* the record-store key of is_repo_posted and mark_posted_repo
Key(repo) == repo.author \o <<"/">> \o repo.name

(***************************************************************************)
(* Content composers (main.rs 292-357, 514-521)                            *)
(***************************************************************************)
\* The outcomes of the summarization (fetch_repo_content, then
\* generate_description): a failure, or the text the model returned.
AiTexts == {<<"o", "k">>, Rep(TWEET_LENGTH, "x")}
AiOutcomes == {[ok |-> FALSE]} \cup {[ok |-> TRUE, text |-> t] : t \in AiTexts}

\* generate_description(..).await.unwrap_or_default()
unwrap_or_default(ai) == IF ai.ok THEN ai.text ELSE <<>>

\* a bounding that measures the description in bytes, as the composers
\* measure the other fields
bound_description_bytes(description, length_left, overflow_checks) ==
    IF ULess(ByteLen(description), length_left)
    THEN Value(description)
    ELSE LET n == UsizeSub(length_left, 4, overflow_checks)
         IN  IF n.panic THEN Panic
             ELSE Value(Take(description, n.value) \o <<" ", ".", ".", ".">>)

\* the bounding of make_post_description / Repo::get_desc, on the description
\* the summarization produced
bound_description(description, length_left, overflow_checks) ==
    IF ULess(Len(description), length_left)
    THEN Value(description)
    ELSE LET n == UsizeSub(length_left, 4, overflow_checks)
         IN  IF n.panic THEN Panic
             ELSE Value(Take(description, n.value) \o <<" ", ".", ".", ".">>)

make_post_description(ai, length_left, overflow_checks) ==
    bound_description(unwrap_or_default(ai), length_left, overflow_checks)

\* let length_left = BUDGET - overhead; make_post_description(repo, length_left)
described(ai, budget, overhead, overflow_checks) ==
    LET length_left == UsizeSub(budget, overhead, overflow_checks)
    IN  IF length_left.panic THEN Panic
        ELSE make_post_description(ai, length_left.value, overflow_checks)

make_tweet(repo, ai, overflow_checks) ==
    LET prefix == make_post_prefix(repo)
        stars == make_post_stars(repo)
        url == make_post_url(repo)
        description == described(ai, TWEET_LENGTH,
                           ByteLen(prefix) + ByteLen(stars) + ByteLen(url), overflow_checks)
    IN  IF description.panic THEN Panic
        ELSE Value(prefix \o description.value \o stars \o url)

make_toot(repo, ai, overflow_checks) ==
    LET prefix == make_post_prefix(repo)
        stars == make_post_stars(repo)
        url == make_post_url(repo)
        description == described(ai, TOOT_LENGTH,
                           ByteLen(prefix) + ByteLen(stars) + MASTODON_FIXED_URL_LENGTH,
                           overflow_checks)
    IN  IF description.panic THEN Panic
        ELSE Value(prefix \o description.value \o stars \o url)

make_weibo(repo, ai, overflow_checks) ==
    LET prefix == make_post_prefix(repo)
        stars == make_post_stars(repo)
        url == weibo_url(repo)
        description == described(ai, WEIBO_LENGTH,
                           ByteLen(prefix) + ByteLen(stars) + ByteLen(url), overflow_checks)
    IN  IF description.panic THEN Panic
        ELSE Value(stars \o prefix \o description.value \o <<"LF", "LF">> \o url)

make_zsxq(repo, ai, overflow_checks) ==
    LET prefix == make_post_prefix(repo)
        stars == make_post_stars(repo)
        url == make_post_url(repo)
        description == described(ai, ZSXQ_LENGTH,
                           ByteLen(prefix) + ByteLen(stars) + ByteLen(url), overflow_checks)
    IN  IF description.panic THEN Panic
        ELSE Value(prefix \o description.value \o stars \o <<"LF", "LF">> \o url)

make_telegram_bot(repo, ai, overflow_checks) ==
    LET prefix == make_post_prefix(repo)
        stars == make_post_stars(repo)
        url == make_post_url(repo)
        description == described(ai, TELEGRAM_BOT_LENGTH,
                           ByteLen(prefix) + ByteLen(stars) + ByteLen(url), overflow_checks)
    IN  IF description.panic THEN Panic
        ELSE Value(prefix \o description.value \o stars \o url)

\* the text post_bluesky builds (main.rs 514-521)
bluesky_text(repo, ai, overflow_checks) ==
    LET prefix == make_post_prefix(repo)
        stars == make_post_stars(repo)
        url == make_post_url(repo)
        description == described(ai, BLUESKY_POST_LENGTH,
                           ByteLen(prefix) + ByteLen(stars) + ByteLen(url), overflow_checks)
    IN  IF description.panic THEN Panic
        ELSE Value(prefix \o description.value \o stars \o url)

\* the publishers, in the order main_loop attempts them
Publishers == <<"twitter", "mastodon", "bluesky", "zsxq", "weibo", "telegram_bot">>

\* the content main_loop composes for a publisher
compose(platform, repo, ai, overflow_checks) ==
    CASE platform = "twitter" -> make_tweet(repo, ai, overflow_checks)
      [] platform = "mastodon" -> make_toot(repo, ai, overflow_checks)
      [] platform = "bluesky" -> bluesky_text(repo, ai, overflow_checks)
      [] platform = "zsxq" -> make_zsxq(repo, ai, overflow_checks)
      [] platform = "weibo" -> make_weibo(repo, ai, overflow_checks)
      [] platform = "telegram_bot" -> make_telegram_bot(repo, ai, overflow_checks)

(***************************************************************************)
(* Zsxq::content_by_repo (platform/zsxq.rs 16, 66-85)                      *)
(***************************************************************************)
MAX_LENGTH == 10000

\* the bytes form_urlencoded::byte_serialize leaves as they are
Unreserved ==
    {"a", "b", "c", "d", "e", "f", "g", "h", "i", "j", "k", "l", "m", "n", "o", "p", "q",
     "r", "s", "t", "u", "v", "w", "x", "y", "z", "A", "B", "C", "D", "E", "F", "G",
     "H", "I", "J", "K", "L", "M", "N", "O", "P", "Q", "R", "S", "T", "U", "V", "W",
     "X", "Y", "Z", "0", "1", "2", "3", "4", "5", "6", "7", "8", "9", "*", "-", ".",
     "_"}

RECURSIVE urlencode(_)
\* urlencode: a space becomes "+", every other byte that is not left as it is
\* becomes a percent sign and two hex digits
urlencode(input) ==
    IF input = <<>> THEN <<>>
    ELSE LET g == Head(input)
         IN  (IF g \in Unreserved THEN <<g>>
              ELSE IF g = " " THEN <<"+">>
              ELSE Rep(3 * Width(g), "%")) \o urlencode(Tail(input))

\* <e type="hashtag" hid="0" title="%23
TagOpen ==
    <<"<", "e", " ", "t", "y", "p", "e", "=", "QUOTE", "h", "a", "s", "h", "t", "a",
      "g", "QUOTE", " ", "h", "i", "d", "=", "QUOTE", "0", "QUOTE", " ", "t", "i", "t",
      "l", "e", "=", "QUOTE", "%", "2", "3">>
\* %23" />
TagClose ==
    <<"%", "2", "3", "QUOTE", " ", "/", ">">>

tag(name) == TagOpen \o urlencode(name) \o TagClose

\* vec![tag("Go"), tag(4 CJK characters), tag(4 CJK characters)].join(" ")
tags ==
    tag(<<"G", "o">>) \o <<" ">> \o tag(Rep(4, "CJK")) \o <<" ">> \o tag(Rep(4, "CJK"))

\* Repo::get_chinese_description(max_length): the summarization's text bounded
\* to max_length grapheme clusters
get_chinese_description(ai, max_length, overflow_checks) ==
    bound_description(unwrap_or_default(ai), max_length, overflow_checks)

\* Repo::get_content(max_length): the repository's text bounded to max_length
\* grapheme clusters
get_content(text, max_length, overflow_checks) ==
    bound_description(text, max_length, overflow_checks)

\* let mut length_left = MAX_LENGTH - (url.len() + tags.len()), and the
\* description requested with it
content_description(r, ai, overflow_checks) ==
    LET url == get_url(r)
        length_left == UsizeSub(MAX_LENGTH, ByteLen(url) + ByteLen(tags), overflow_checks)
    IN  IF length_left.panic THEN Panic
        ELSE LET description ==
                     get_chinese_description(ai, length_left.value, overflow_checks)
             IN  IF description.panic THEN Panic
                 ELSE [panic |-> FALSE, value |-> description.value,
                       requested |-> length_left.value]

\* length_left -= description.len()
content_budget(r, ai, overflow_checks) ==
    LET description == content_description(r, ai, overflow_checks)
    IN  IF description.panic THEN Panic
        ELSE LET left == UsizeSub(description.requested, ByteLen(description.value),
                                  overflow_checks)
             IN  IF left.panic THEN Panic
                 ELSE [panic |-> FALSE, value |-> left.value,
                       description |-> description.value]

content_by_repo(r, ai, text, overflow_checks) ==
    LET left == content_budget(r, ai, overflow_checks)
    IN  IF left.panic THEN Panic
        ELSE LET content == get_content(text, left.value, overflow_checks)
             IN  IF content.panic THEN Panic
                 ELSE Value(left.description \o <<"LF", "LF">> \o content.value
                              \o <<"LF", "LF">> \o get_url(r) \o <<"LF", "LF">> \o tags)

(***************************************************************************)
(* Denylist filter (main.rs 84-105)                                        *)
(***************************************************************************)
\* char::to_lowercase on the letters the model uses in upper case
LowerChar(c) ==
    CASE c = "A" -> "a"
      [] c = "F" -> "f"
      [] c = "S" -> "s"
      [] c = "T" -> "t"
      [] OTHER -> c

\* str::to_lowercase
to_lowercase(s) == [i \in 1..Len(s) |-> LowerChar(s[i])]

\* str::contains(pattern): pattern occurs in s as a contiguous substring
str_contains(s, pattern) ==
    \E i \in 0..(Len(s) - Len(pattern)) : SubSeq(s, i + 1, i + Len(pattern)) = pattern

\* Vec<String>::contains
vec_contains(v, x) == \E i \in 1..Len(v) : v[i] = x

\* a denylist filter that compares the descriptions as they are written
contains_as_written(denylist, repo) ==
    \/ vec_contains(denylist.names, repo.name)
    \/ vec_contains(denylist.authors, repo.author)
    \/ \E i \in 1..Len(denylist.descriptions) :
           str_contains(repo.description, denylist.descriptions[i])

\* DenylistConfig::contains
contains(denylist, repo) ==
    \/ vec_contains(denylist.names, repo.name)
    \/ vec_contains(denylist.authors, repo.author)
    \/ \E i \in 1..Len(denylist.descriptions) :
           str_contains(to_lowercase(repo.description),
                        to_lowercase(denylist.descriptions[i]))

\* the [denylist] tables the model is run with
Denylists ==
    {[names |-> <<>>, authors |-> <<>>, descriptions |-> <<>>],
     [names |-> <<>>, authors |-> <<>>, descriptions |-> << <<"F", "A", "S", "T">> >>]}

\* the values of interval.post_ttl, and of interval.fetch_interval and
\* interval.post_interval, the model is run with (seconds)
PostTtls == {1, 2}
Intervals == {1}

(***************************************************************************)
(* The scheduling loop (main.rs 600-707)                                   *)
(***************************************************************************)
VARIABLES
    config,          \* Config: interval, denylist, the enabled publishers
    overflow_checks, \* the build profile: are overflow checks compiled in
    pc,              \* where main / main_loop stands
    now,             \* the clock, in seconds
    store,           \* the record store: key -> instant its marker expires (0: no key)
    repos,           \* the candidates of the current fetch (ids into Candidates)
    idx,             \* the position of the for loop in repos
    res,             \* the Result main_loop returns to main: "Ok" or the error's context
    attempts,        \* publisher -> attempts on it for the current candidate
    errors,          \* the number of error! lines logged since the for loop took this candidate
    ops,             \* what this cycle did: <<operation, position in repos, outcome>>
    round_at,        \* candidate -> the instant of its last publish round (-1: none)
    fetched_at,      \* the instant of the latest fetch_repos call (-1: none)
    marked_age,      \* key -> seconds since its latest successful SETEX, counted up to post_ttl (-1: none)
    peer,            \* a second instance of the process on the same store: where it stands,
                     \* the instant of its publish round (-1: none), has it written the marker
    bsky,            \* post_bluesky under way: the steps it has performed, and its Result
    call,            \* the function applied and its arguments (function specifications)
    result           \* what the call returned (function specifications)

vars == <<config, overflow_checks, pc, now, store, repos, idx, res, attempts, errors,
          ops, round_at, fetched_at, marked_age, peer, bsky, call, result>>

\* the variables of the function specifications, which the loop leaves alone
fn_vars == <<call, result>>

PublisherSet == {Publishers[i] : i \in 1..Len(Publishers)}

\* the sets of platform blocks present in the config file
EnabledSets == {{}, {"mastodon", "bluesky", "weibo"}, PublisherSet}

Keys == {Key(Candidates[c]) : c \in CandidateIds}

\* what fetch_repos can return: parse_trending keeps the page's rows as they come
FetchResults == UNION {[1..n -> CandidateIds] : n \in 0..MaxFetch}

NoAttempts == [p \in PublisherSet |-> 0]

\* post_bluesky is not under way
NoBluesky == [steps |-> 0, ok |-> TRUE]

\* no second instance is running
NoPeer == [pc |-> "off", round_at |-> -1, marked |-> FALSE]

Init ==
    /\ config \in [post_ttl : PostTtls, fetch_interval : Intervals,
                    post_interval : Intervals, denylist : Denylists,
                    enabled : EnabledSets]
    /\ overflow_checks \in BOOLEAN
    /\ pc = "fetch"
    /\ now = 0
    /\ store = [k \in Keys |-> 0]
    /\ repos = <<>>
    /\ idx = 1
    /\ res = "Ok"
    /\ attempts = NoAttempts
    /\ errors = 0
    /\ ops = {}
    /\ round_at = [c \in CandidateIds |-> -1]
    /\ fetched_at = -1
    /\ marked_age = [k \in Keys |-> -1]
    /\ peer = NoPeer
    /\ bsky = NoBluesky
    /\ call = [fn |-> "main"]
    /\ result = [panic |-> FALSE]

\* the candidate the for loop is at
repo == Candidates[repos[idx]]

\* the for loop takes its next element, or main_loop returns Ok(())
NextRepo(i) == IF i <= Len(repos) THEN "denylist" ELSE "fetch_sleep"

\* conn.exists(key): the key is there until its expiry instant
exists(key) == store[key] > now

\* the store drops the keys whose expiry instant has come
Expired(t) == [k \in Keys |-> IF store[k] <= t THEN 0 ELSE store[k]]

\* d more seconds have passed since the marker writes
Aged(d) ==
    [k \in Keys |->
        IF marked_age[k] = -1 THEN -1
        ELSE IF marked_age[k] + d >= config.post_ttl THEN config.post_ttl
        ELSE marked_age[k] + d]

\* main calls main_loop, which starts with fetch_repos().await.context(..)?
Fetch ==
    /\ pc = "fetch"
    /\ attempts' = NoAttempts
    /\ errors' = 0
    /\ ops' = {}
    /\ idx' = 1
    /\ \/ /\ repos' = <<>>
          /\ res' = "While fetching repo"
          /\ pc' = "fetch_sleep"
       \/ \E fetched \in FetchResults :
             /\ repos' = fetched
             /\ res' = "Ok"
             /\ pc' = IF Len(fetched) >= 1 THEN "denylist" ELSE "fetch_sleep"
    /\ fetched_at' = now
    /\ UNCHANGED <<config, overflow_checks, now, store, round_at, fn_vars, peer, bsky, marked_age>>

\* a loop body that starts with the existence check, whatever the denylist says
ExistenceCheckFirst ==
    /\ pc = "denylist"
    /\ errors' = 0
    /\ attempts' = NoAttempts
    /\ idx' = idx
    /\ pc' = "is_repo_posted"
    /\ UNCHANGED <<config, overflow_checks, now, store, repos, res, ops, round_at,
                   fetched_at, fn_vars, peer, bsky, marked_age>>

\* config.denylist.contains(&repo), the left operand of ||
Denylist ==
    /\ pc = "denylist"
    /\ errors' = 0
    /\ attempts' = NoAttempts
    /\ IF contains(config.denylist, repo)
       THEN /\ idx' = idx + 1
            /\ pc' = NextRepo(idx + 1)
       ELSE /\ idx' = idx
            /\ pc' = "is_repo_posted"
    /\ UNCHANGED <<config, overflow_checks, now, store, repos, res, ops, round_at,
                   fetched_at, fn_vars, peer, bsky, marked_age>>

\* an existence check whose error is recorded while the for loop goes on
IsRepoPostedContinues ==
    /\ pc = "is_repo_posted"
    /\ \/ /\ ops' = ops \cup {<<"is_repo_posted", idx, "Err">>}
          /\ res' = "While checking repo posted"
          /\ idx' = idx + 1
          /\ pc' = NextRepo(idx + 1)
       \/ /\ exists(Key(repo))
          /\ ops' = ops \cup {<<"is_repo_posted", idx, "true">>}
          /\ idx' = idx + 1
          /\ pc' = NextRepo(idx + 1)
          /\ res' = res
       \/ /\ ~exists(Key(repo))
          /\ ops' = ops \cup {<<"is_repo_posted", idx, "false">>}
          /\ pc' = Publishers[1]
          /\ UNCHANGED <<res, idx>>
    /\ UNCHANGED <<config, overflow_checks, now, store, repos, attempts, errors, round_at,
                   fetched_at, fn_vars, peer, bsky, marked_age>>

\* an existence check that renews the marker of a repository it finds posted
IsRepoPostedRefreshes ==
    /\ pc = "is_repo_posted"
    /\ \/ /\ ops' = ops \cup {<<"is_repo_posted", idx, "Err">>}
          /\ res' = "While checking repo posted"
          /\ pc' = "fetch_sleep"
          /\ idx' = idx
          /\ store' = store
       \/ /\ exists(Key(repo))
          /\ ops' = ops \cup {<<"is_repo_posted", idx, "true">>}
          /\ idx' = idx + 1
          /\ pc' = NextRepo(idx + 1)
          /\ res' = res
          /\ store' = [store EXCEPT ![Key(repo)] = now + config.post_ttl]
       \/ /\ ~exists(Key(repo))
          /\ ops' = ops \cup {<<"is_repo_posted", idx, "false">>}
          /\ pc' = Publishers[1]
          /\ store' = store
          /\ UNCHANGED <<res, idx>>
    /\ UNCHANGED <<config, overflow_checks, now, repos, attempts, errors, round_at,
                   fetched_at, fn_vars, peer, bsky, marked_age>>

\* is_repo_posted(redis_conn, &repo).await.context(..)?, the right operand
IsRepoPosted ==
    /\ pc = "is_repo_posted"
    /\ \/ /\ ops' = ops \cup {<<"is_repo_posted", idx, "Err">>}
          /\ res' = "While checking repo posted"
          /\ pc' = "fetch_sleep"
          /\ idx' = idx
       \/ /\ exists(Key(repo))
          /\ ops' = ops \cup {<<"is_repo_posted", idx, "true">>}
          /\ idx' = idx + 1
          /\ pc' = NextRepo(idx + 1)
          /\ res' = res
       \/ /\ ~exists(Key(repo))
          /\ ops' = ops \cup {<<"is_repo_posted", idx, "false">>}
          /\ pc' = Publishers[1]
          /\ UNCHANGED <<res, idx>>
    /\ UNCHANGED <<config, overflow_checks, now, store, repos, attempts, errors, round_at,
                   fetched_at, fn_vars, peer, bsky, marked_age>>

\* a main_loop whose weibo block stands before its zsxq block
AfterPublisherSwapped(i) ==
    CASE i = 3 -> Publishers[5]
      [] i = 5 -> Publishers[4]
      [] i = 4 -> Publishers[6]
      [] i = 6 -> "mark_posted_repo"
      [] OTHER -> Publishers[i + 1]

\* the publisher attempted after the i-th, or the marker write
AfterPublisher(i) == IF i < Len(Publishers) THEN Publishers[i + 1] ELSE "mark_posted_repo"

\* a publisher's call has returned: the first attempt for a candidate opens its round
Attempted(platform) ==
    /\ attempts' = [attempts EXCEPT ![platform] = @ + 1]
    /\ ops' = ops \cup {<<"publish", idx, platform>>}
    /\ round_at' =
          IF \A q \in PublisherSet : attempts[q] = 0
          THEN [round_at EXCEPT ![repos[idx]] = now]
          ELSE round_at

\* a publisher block whose error is propagated with ?, ending main_loop
PublishAborts(i) ==
    LET platform == Publishers[i] IN
    /\ pc = platform
    /\ IF platform \notin config.enabled
       THEN /\ pc' = AfterPublisher(i)
            /\ UNCHANGED <<attempts, errors, ops, round_at, res>>
       ELSE \E ai \in AiOutcomes :
              IF compose(platform, repo, ai, overflow_checks).panic
              THEN /\ pc' = "panicked"
                   /\ UNCHANGED <<attempts, errors, ops, round_at, res>>
              ELSE /\ Attempted(platform)
                   /\ errors' = errors
                   /\ \/ pc' = AfterPublisher(i) /\ res' = res
                      \/ pc' = "fetch_sleep" /\ res' = "While posting"
    /\ UNCHANGED <<config, overflow_checks, now, store, repos, idx, fetched_at, fn_vars, peer, bsky, marked_age>>

\* a publisher block whose error makes the loop body go straight to the marker write
PublishSkipsRest(i) ==
    LET platform == Publishers[i] IN
    /\ pc = platform
    /\ IF platform \notin config.enabled
       THEN /\ pc' = AfterPublisher(i)
            /\ UNCHANGED <<attempts, errors, ops, round_at>>
       ELSE \E ai \in AiOutcomes :
              IF compose(platform, repo, ai, overflow_checks).panic
              THEN /\ pc' = "panicked"
                   /\ UNCHANGED <<attempts, errors, ops, round_at>>
              ELSE /\ Attempted(platform)
                   /\ \/ pc' = AfterPublisher(i) /\ errors' = errors
                      \/ pc' = "mark_posted_repo" /\ errors' = errors + 1
    /\ UNCHANGED <<config, overflow_checks, now, store, repos, idx, res, fetched_at, fn_vars, peer, bsky, marked_age>>

\* one `if let Some(config) = &config.<platform>` block of main_loop whose
\* content is composed by a make_* function and then handed to the publisher
Publish(i) ==
    LET platform == Publishers[i] IN
    /\ pc = platform
    /\ IF platform \notin config.enabled
       THEN /\ pc' = AfterPublisher(i)
            /\ UNCHANGED <<attempts, errors, ops, round_at>>
       ELSE \E ai \in AiOutcomes :
              IF compose(platform, repo, ai, overflow_checks).panic
              THEN /\ pc' = "panicked"
                   /\ UNCHANGED <<attempts, errors, ops, round_at>>
              ELSE /\ Attempted(platform)
                   /\ pc' = AfterPublisher(i)
                   /\ \/ errors' = errors
                      \/ errors' = errors + 1
    /\ UNCHANGED <<config, overflow_checks, now, store, repos, idx, res, fetched_at, fn_vars, peer, bsky, marked_age>>

Twitter == Publish(1)

Mastodon == Publish(2)

\* the steps of post_bluesky, in order
BlueskySteps == <<"get_github_og_image", "create_session", "upload_blob", "create_record">>

\* the step of post_bluesky that follows a successful step, or its return
AfterStep(k, ok) ==
    IF ok /\ k < Len(BlueskySteps) THEN BlueskySteps[k + 1] ELSE "bluesky_returned"

\* a step of post_bluesky whose failure is passed over (no `?`)
StepUnchecked(k) ==
    /\ pc = BlueskySteps[k]
    /\ \E ok \in BOOLEAN :
          /\ bsky' = [steps |-> k, ok |-> bsky.ok /\ ok]
          /\ pc' = AfterStep(k, TRUE)
    /\ UNCHANGED <<attempts, errors, ops, round_at>>
    /\ UNCHANGED <<config, overflow_checks, now, store, repos, idx, res, fetched_at, fn_vars,
                   peer, marked_age>>

\* the main_loop block of post_bluesky and its first step, get_github_og_image(repo).await?,
\* after which the text is composed (main.rs 512-521)
Bluesky ==
    /\ pc = "bluesky"
    /\ IF "bluesky" \notin config.enabled
       THEN /\ pc' = AfterPublisher(3)
            /\ bsky' = bsky
       ELSE \/ /\ bsky' = [steps |-> 1, ok |-> FALSE]
               /\ pc' = AfterStep(1, FALSE)
            \/ /\ bsky' = [steps |-> 1, ok |-> TRUE]
               /\ \E ai \in AiOutcomes :
                     pc' = IF bluesky_text(repo, ai, overflow_checks).panic
                           THEN "panicked" ELSE AfterStep(1, TRUE)
    /\ UNCHANGED <<attempts, errors, ops, round_at>>
    /\ UNCHANGED <<config, overflow_checks, now, store, repos, idx, res, fetched_at, fn_vars,
                   peer, marked_age>>

\* a later step of post_bluesky, each ending in .await?
Step(k) ==
    /\ pc = BlueskySteps[k]
    /\ \E ok \in BOOLEAN :
          /\ bsky' = [steps |-> k, ok |-> ok]
          /\ pc' = AfterStep(k, ok)
    /\ UNCHANGED <<attempts, errors, ops, round_at>>
    /\ UNCHANGED <<config, overflow_checks, now, store, repos, idx, res, fetched_at, fn_vars,
                   peer, marked_age>>

CreateSession == Step(2)

UploadBlob == Step(3)

CreateRecord == Step(4)

\* post_bluesky has returned to main_loop: if let Err(error) = .. { error!(..) }
BlueskyReturned ==
    /\ pc = "bluesky_returned"
    /\ Attempted("bluesky")
    /\ errors' = IF bsky.ok THEN errors ELSE errors + 1
    /\ bsky' = NoBluesky
    /\ pc' = AfterPublisher(3)
    /\ UNCHANGED <<config, overflow_checks, now, store, repos, idx, res, fetched_at, fn_vars,
                   peer, marked_age>>

Zsxq == Publish(4)

Weibo == Publish(5)

TelegramBot == Publish(6)

\* a marker write whose error starts the next cycle without the sleep of main
MarkErrorRestartsCycle ==
    /\ pc = "mark_posted_repo"
    /\ \/ /\ store' = [store EXCEPT ![Key(repo)] = now + config.post_ttl]
          /\ marked_age' = [marked_age EXCEPT ![Key(repo)] = 0]
          /\ ops' = ops \cup {<<"mark_posted_repo", idx, "Ok">>}
          /\ pc' = "post_sleep"
          /\ res' = res
       \/ /\ store' = store
          /\ marked_age' = marked_age
          /\ ops' = ops \cup {<<"mark_posted_repo", idx, "Err">>}
          /\ res' = "While marking repo posted"
          /\ pc' = "fetch"
    /\ UNCHANGED <<config, overflow_checks, now, repos, idx, attempts, errors, round_at,
                   fetched_at, fn_vars, peer, bsky>>

\* a marker write whose expiry is one second longer than post_ttl
MarkWithLongerTtl ==
    /\ pc = "mark_posted_repo"
    /\ \/ /\ store' = [store EXCEPT ![Key(repo)] = now + config.post_ttl + 1]
          /\ marked_age' = [marked_age EXCEPT ![Key(repo)] = 0]
          /\ ops' = ops \cup {<<"mark_posted_repo", idx, "Ok">>}
          /\ pc' = "post_sleep"
          /\ res' = res
       \/ /\ store' = store
          /\ marked_age' = marked_age
          /\ ops' = ops \cup {<<"mark_posted_repo", idx, "Err">>}
          /\ res' = "While marking repo posted"
          /\ pc' = "fetch_sleep"
    /\ UNCHANGED <<config, overflow_checks, now, repos, idx, attempts, errors, round_at,
                   fetched_at, fn_vars, peer, bsky>>

\* mark_posted_repo(redis_conn, &repo, config.interval.post_ttl).await.context(..)?
MarkPostedRepo ==
    /\ pc = "mark_posted_repo"
    /\ \/ /\ store' = [store EXCEPT ![Key(repo)] = now + config.post_ttl]
          /\ marked_age' = [marked_age EXCEPT ![Key(repo)] = 0]
          /\ ops' = ops \cup {<<"mark_posted_repo", idx, "Ok">>}
          /\ pc' = "post_sleep"
          /\ res' = res
       \/ /\ store' = store
          /\ marked_age' = marked_age
          /\ ops' = ops \cup {<<"mark_posted_repo", idx, "Err">>}
          /\ res' = "While marking repo posted"
          /\ pc' = "fetch_sleep"
    /\ UNCHANGED <<config, overflow_checks, now, repos, idx, attempts, errors, round_at,
                   fetched_at, fn_vars, peer, bsky>>

\* a for loop that goes on to the next candidate without sleeping
PostSleepSkipped ==
    /\ pc = "post_sleep"
    /\ now + config.post_interval <= MaxTime
    /\ now' = now
    /\ store' = Expired(now')
    /\ marked_age' = Aged(now' - now)
    /\ idx' = idx + 1
    /\ pc' = NextRepo(idx + 1)
    /\ UNCHANGED <<config, overflow_checks, repos, res, attempts, errors, ops, round_at,
                   fetched_at, fn_vars, peer, bsky>>

\* tokio::time::sleep(post_interval) at the end of the for loop's body
PostSleep ==
    /\ pc = "post_sleep"
    /\ now + config.post_interval <= MaxTime
    /\ now' = now + config.post_interval
    /\ store' = Expired(now')
    /\ marked_age' = Aged(now' - now)
    /\ idx' = idx + 1
    /\ pc' = NextRepo(idx + 1)
    /\ UNCHANGED <<config, overflow_checks, repos, res, attempts, errors, ops, round_at,
                   fetched_at, fn_vars, peer, bsky>>

\* a main that starts the next cycle at once when main_loop returned an error
FetchRetriedAtOnce ==
    /\ pc = "fetch_sleep"
    /\ now + config.fetch_interval <= MaxTime
    /\ errors' = IF res # "Ok" THEN errors + 1 ELSE errors
    /\ now' = IF res # "Ok" THEN now ELSE now + config.fetch_interval
    /\ store' = Expired(now')
    /\ marked_age' = Aged(now' - now)
    /\ pc' = "fetch"
    /\ UNCHANGED <<config, overflow_checks, repos, idx, res, attempts, ops, round_at,
                   fetched_at, fn_vars, peer, bsky>>

\* main: main_loop has returned res; an Err is logged, then
\* tokio::time::sleep(fetch_interval) and the loop starts over
FetchSleep ==
    /\ pc = "fetch_sleep"
    /\ now + config.fetch_interval <= MaxTime
    /\ errors' = IF res # "Ok" THEN errors + 1 ELSE errors
    /\ now' = now + config.fetch_interval
    /\ store' = Expired(now')
    /\ marked_age' = Aged(now' - now)
    /\ pc' = "fetch"
    /\ UNCHANGED <<config, overflow_checks, repos, idx, res, attempts, ops, round_at,
                   fetched_at, fn_vars, peer, bsky>>

Next ==
    \/ Fetch
    \/ Denylist
    \/ IsRepoPosted
    \/ Twitter
    \/ Mastodon
    \/ Bluesky
    \/ CreateSession
    \/ UploadBlob
    \/ CreateRecord
    \/ BlueskyReturned
    \/ Zsxq
    \/ Weibo
    \/ TelegramBot
    \/ MarkPostedRepo
    \/ PostSleep
    \/ FetchSleep

Spec == Init /\ [][Next]_vars

(***************************************************************************)
(* Two instances of the process on one record store: the second instance   *)
(* runs the same main_loop with the same config file and is followed for   *)
(* one cycle, in which its fetch returns the first candidate.              *)
(***************************************************************************)
\* the repository both instances fetch
Shared == Candidates[1]

\* the variables of the first instance, which a step of the second leaves alone
first_vars == <<config, overflow_checks, pc, now, repos, idx, res, attempts, errors, ops,
                round_at, fetched_at, bsky, fn_vars>>

\* the second instance's cycle is a burst of I/O, which takes no time in this
\* model: its steps happen at the instant both instances start
PeerRuns == now = 0

\* a test-and-set in the place of the existence check: the key is claimed
\* by the check itself
PeerCheckAndSet ==
    /\ PeerRuns
    /\ peer.pc = "is_repo_posted"
    /\ \/ /\ peer' = [peer EXCEPT !.pc = "done"]
          /\ UNCHANGED <<store, marked_age>>
       \/ /\ exists(Key(Shared))
          /\ peer' = [peer EXCEPT !.pc = "done"]
          /\ UNCHANGED <<store, marked_age>>
       \/ /\ ~exists(Key(Shared))
          /\ store' = [store EXCEPT ![Key(Shared)] = now + config.post_ttl]
          /\ marked_age' = [marked_age EXCEPT ![Key(Shared)] = 0]
          /\ peer' = [peer EXCEPT !.pc = "publish"]
    /\ UNCHANGED first_vars

\* the second instance: fetch_repos, then the denylist test
PeerFetch ==
    /\ PeerRuns
    /\ peer.pc = "fetch"
    /\ \/ peer' = [peer EXCEPT !.pc = "done"]
       \/ peer' = [peer EXCEPT !.pc = IF contains(config.denylist, Shared)
                                      THEN "done" ELSE "is_repo_posted"]
    /\ UNCHANGED <<first_vars, store, marked_age>>

\* the second instance: is_repo_posted(..)?
PeerIsRepoPosted ==
    /\ PeerRuns
    /\ peer.pc = "is_repo_posted"
    /\ \/ peer' = [peer EXCEPT !.pc = "done"]
       \/ exists(Key(Shared)) /\ peer' = [peer EXCEPT !.pc = "done"]
       \/ ~exists(Key(Shared)) /\ peer' = [peer EXCEPT !.pc = "publish"]
    /\ UNCHANGED <<first_vars, store, marked_age>>

\* the second instance: the six publisher blocks, errors logged and dropped
PeerPublish ==
    /\ PeerRuns
    /\ peer.pc = "publish"
    /\ peer' = [peer EXCEPT !.pc = "mark_posted_repo",
                            !.round_at = IF config.enabled # {} THEN now ELSE @]
    /\ UNCHANGED <<first_vars, store, marked_age>>

\* the second instance: mark_posted_repo(..)?
PeerMarkPostedRepo ==
    /\ PeerRuns
    /\ peer.pc = "mark_posted_repo"
    /\ \/ /\ store' = [store EXCEPT ![Key(Shared)] = now + config.post_ttl]
          /\ marked_age' = [marked_age EXCEPT ![Key(Shared)] = 0]
          /\ peer' = [peer EXCEPT !.pc = "done", !.marked = TRUE]
       \/ /\ peer' = [peer EXCEPT !.pc = "done"]
          /\ UNCHANGED <<store, marked_age>>
    /\ UNCHANGED first_vars

\* both instances start together, from a config file with one platform block
\* and an empty denylist
InitRace ==
    /\ config \in [post_ttl : PostTtls, fetch_interval : Intervals,
                    post_interval : Intervals,
                    denylist : {[names |-> <<>>, authors |-> <<>>, descriptions |-> <<>>]},
                    enabled : {{"bluesky"}}]
    /\ overflow_checks = FALSE
    /\ pc = "fetch"
    /\ now = 0
    /\ store = [k \in Keys |-> 0]
    /\ repos = <<>>
    /\ idx = 1
    /\ res = "Ok"
    /\ attempts = NoAttempts
    /\ errors = 0
    /\ ops = {}
    /\ round_at = [c \in CandidateIds |-> -1]
    /\ fetched_at = -1
    /\ marked_age = [k \in Keys |-> -1]
    /\ peer = [NoPeer EXCEPT !.pc = "fetch"]
    /\ bsky = NoBluesky
    /\ call = [fn |-> "main"]
    /\ result = [panic |-> FALSE]

NextRace ==
    \/ Next
    \/ PeerFetch
    \/ PeerIsRepoPosted
    \/ PeerPublish
    \/ PeerMarkPostedRepo

SpecRace == InitRace /\ [][NextRace]_vars

(***************************************************************************)
(* Function specifications: a function of the program is applied to        *)
(* arguments drawn from bounded sets; the loop stands still.               *)
(***************************************************************************)
\* the loop's variables while a function is examined on its own
Idle ==
    /\ config = [post_ttl |-> 1, fetch_interval |-> 1, post_interval |-> 1,
                 denylist |-> [names |-> <<>>, authors |-> <<>>, descriptions |-> <<>>],
                 enabled |-> {}]
    /\ now = 0
    /\ store = [k \in Keys |-> 0]
    /\ repos = <<>>
    /\ idx = 1
    /\ res = "Ok"
    /\ attempts = NoAttempts
    /\ errors = 0
    /\ ops = {}
    /\ round_at = [c \in CandidateIds |-> -1]
    /\ fetched_at = -1
    /\ marked_age = [k \in Keys |-> -1]
    /\ peer = NoPeer
    /\ bsky = NoBluesky

loop_vars == <<config, now, store, repos, idx, res, attempts, errors, ops, round_at,
               fetched_at, marked_age, peer, bsky>>

\* the grapheme clusters descriptions are made of: 1, 2 and 6 bytes wide
Graphemes == {"a", "E_ACUTE", "STAR"}

\* the raw descriptions of at most MaxDescLen clusters
Descriptions == UNION {[1..n -> Graphemes] : n \in 0..MaxDescLen}

\* the summarization's outcomes over those descriptions
DescriptionOutcomes ==
    {[ok |-> FALSE]} \cup {[ok |-> TRUE, text |-> d] : d \in Descriptions}

\* a platform's total budget (main.rs 24-31)
Budget(platform) ==
    CASE platform = "twitter" -> TWEET_LENGTH
      [] platform = "mastodon" -> TOOT_LENGTH
      [] platform = "bluesky" -> BLUESKY_POST_LENGTH
      [] platform = "zsxq" -> ZSXQ_LENGTH
      [] platform = "weibo" -> WEIBO_LENGTH
      [] platform = "telegram_bot" -> TELEGRAM_BOT_LENGTH

\* the repositories the composers are applied to
ComposeRepos == {Candidates[c] : c \in CandidateIds} \cup {SameName, ExactFit}

\* the summarization's outcomes the composers are applied to: a failure, a
\* short text, and texts of as many clusters as the platform's whole budget
ComposeOutcomes(platform) ==
    {[ok |-> FALSE], [ok |-> TRUE, text |-> <<"o", "k">>],
     [ok |-> TRUE, text |-> Rep(Budget(platform), "x")],
     [ok |-> TRUE, text |-> Rep(Budget(platform), "CJK")]}

\* the rule lists and repositories DenylistConfig::contains is applied to:
\* words that differ in case only, the empty pattern, lists of two rules
DenyNames == {<<>>, << <<"a">> >>, << <<"A">> >>}
DenyDescriptions ==
    {<<>>, << <<"a">> >>, << <<"A", "f">> >>, << <<>> >>, << <<"s">>, <<"f", "A">> >>}
DenyRules == [names : DenyNames, authors : DenyNames, descriptions : DenyDescriptions]
DenyRepos ==
    [author : {<<"a">>, <<"f">>}, name : {<<"A">>, <<"f">>},
     description : {<<>>, <<"a">>, <<"f", "A">>, <<"t", "a", "F">>}, stars : {0}]

\* what Zsxq::content_by_repo is applied to: a failed summarization, a short
\* one and a long one in 3-byte characters; a short text and one longer than
\* any budget
ZsxqOutcomes ==
    {[ok |-> FALSE], [ok |-> TRUE, text |-> <<"o", "k">>],
     [ok |-> TRUE, text |-> Rep(4000, "CJK")]}
ZsxqTexts == {<<"o", "k">>, Rep(MAX_LENGTH, "x")}

InitFn ==
    /\ Idle
    /\ overflow_checks \in BOOLEAN
    /\ pc = "call"
    /\ result = [panic |-> FALSE, value |-> <<>>]
    /\ \/ call \in [fn : {"make_post_description"}, ai : DescriptionOutcomes,
                     length_left : 0..MaxBudget]
       \/ \E platform \in PublisherSet :
             call \in [fn : {"compose"}, platform : {platform}, repo : ComposeRepos,
                       ai : ComposeOutcomes(platform)]
       \/ call \in [fn : {"contains"}, denylist : DenyRules, repo : DenyRepos]
       \/ call \in [fn : {"content_by_repo"}, repo : ComposeRepos, ai : ZsxqOutcomes,
                     text : ZsxqTexts]

\* make_post_description(repo, length_left).await
MakePostDescription ==
    /\ pc = "call"
    /\ call.fn = "make_post_description"
    /\ result' = make_post_description(call.ai, call.length_left, overflow_checks)
    /\ pc' = "returned"
    /\ UNCHANGED <<loop_vars, overflow_checks, call>>

\* make_tweet, make_toot, the text of post_bluesky, make_zsxq, make_weibo,
\* make_telegram_bot
Compose ==
    /\ pc = "call"
    /\ call.fn = "compose"
    /\ result' = compose(call.platform, call.repo, call.ai, overflow_checks)
    /\ pc' = "returned"
    /\ UNCHANGED <<loop_vars, overflow_checks, call>>

\* config.denylist.contains(&repo)
Contains ==
    /\ pc = "call"
    /\ call.fn = "contains"
    /\ result' = Value(contains(call.denylist, call.repo))
    /\ pc' = "returned"
    /\ UNCHANGED <<loop_vars, overflow_checks, call>>

\* zsxq.content_by_repo(&repo).await
ContentByRepo ==
    /\ pc = "call"
    /\ call.fn = "content_by_repo"
    /\ result' = content_by_repo(call.repo, call.ai, call.text, overflow_checks)
    /\ pc' = "returned"
    /\ UNCHANGED <<loop_vars, overflow_checks, call>>

NextFn ==
    \/ MakePostDescription
    \/ Compose
    \/ Contains
    \/ ContentByRepo

SpecFn == InitFn /\ [][NextFn]_vars

(***************************************************************************)
(* The outbound HTTP calls on their own: one call of a function that       *)
(* sends a request, through the retry middleware where the function builds *)
(* its client with one, and judges the response; the loop stands still.    *)
(***************************************************************************)
\* build_with_max_retries(3)
MAX_RETRIES == 3

\* the functions that send one request and judge its response
HttpFns == {"Zsxq::post", "chat_completion", "read_url", "post_zsxq", "post_weibo"}

\* the functions whose client is built with RetryTransientMiddleware
Retrying(fn) == fn \in {"Zsxq::post", "chat_completion", "read_url"}

\* serde_json values: scalars, an array, objects over the two fields looked at
JsonNull == [kind |-> "null"]
JsonScalars ==
    {JsonNull, [kind |-> "bool", b |-> TRUE], [kind |-> "bool", b |-> FALSE],
     [kind |-> "int", n |-> 0], [kind |-> "int", n |-> 1], [kind |-> "int", n |-> 2],
     [kind |-> "float", n |-> 1], [kind |-> "string", s |-> "1"]}
JsonKeys == {"succeeded", "ok"}
JsonObjects == {[kind |-> "object", fields |-> f] :
                  f \in UNION {[K -> JsonScalars] : K \in SUBSET JsonKeys}}
JsonValues == JsonScalars \cup {[kind |-> "array"]} \cup JsonObjects

\* response bodies: one whose read fails, a text that is not JSON, and the
\* texts of the JSON values
Bodies == {[kind |-> "unreadable"], [kind |-> "text"]}
             \cup {[kind |-> "json", value |-> v] : v \in JsonValues}

\* status codes: success, a client error, and two the middleware takes as transient
Statuses == {200, 404, 429, 500}

\* what one attempt of a request comes back with: a transport error (a timeout
\* or connection error is transient, a builder or redirect error is not) or a response
SendOutcomes ==
    {[ok |-> FALSE, transient |-> t] : t \in BOOLEAN}
       \cup {[ok |-> TRUE, status |-> s, body |-> b] : s \in Statuses, b \in Bodies}

\* Retryable::from_reqwest_response: 5xx, 408 and 429 and transient transport errors
Transient(o) == IF o.ok THEN o.status >= 500 \/ o.status \in {408, 429} ELSE o.transient

\* serde_json::from_str
from_str(body) ==
    IF body.kind = "json" THEN [ok |-> TRUE, value |-> body.value] ELSE [ok |-> FALSE]

\* Value's index by a field name: Null on anything but an object holding it
Index(v, key) ==
    IF v.kind = "object" /\ key \in DOMAIN v.fields THEN v.fields[key] ELSE JsonNull

\* Value::as_bool and Value::as_i64
as_bool(v) == IF v.kind = "bool" THEN [some |-> TRUE, b |-> v.b] ELSE [some |-> FALSE]
as_i64(v) == IF v.kind = "int" THEN [some |-> TRUE, n |-> v.n] ELSE [some |-> FALSE]

\* Response::error_for_status
error_for_status(response) == response.status >= 400

\* the match on resp["succeeded"].as_bool() of post_zsxq and Zsxq::post
succeeded(body) ==
    LET resp == from_str(body)
    IN  IF ~resp.ok THEN "Err"
        ELSE LET b == as_bool(Index(resp.value, "succeeded"))
             IN  IF ~b.some THEN "Err" ELSE IF b.b THEN "Ok" ELSE "Err"

\* post_zsxq after send: text, parse, match; the status is not looked at
post_zsxq(response) ==
    IF response.body.kind = "unreadable" THEN "Err" ELSE succeeded(response.body)

\* Zsxq::post after send: error_for_status, text, parse, match
Zsxq_post(response) ==
    IF error_for_status(response) \/ response.body.kind = "unreadable"
    THEN "Err"
    ELSE succeeded(response.body)

\* a post_weibo that takes a body without the field ok as a success
post_weibo_missing_ok(response) ==
    IF response.body.kind = "unreadable" THEN "Err"
    ELSE LET resp == from_str(response.body)
         IN  IF ~resp.ok THEN "Err"
             ELSE LET b == as_i64(Index(resp.value, "ok"))
                  IN  IF ~b.some THEN "Ok" ELSE IF b.n = 1 THEN "Ok" ELSE "Err"

\* post_weibo after send: text, parse, match on resp["ok"].as_i64()
post_weibo(response) ==
    IF response.body.kind = "unreadable" THEN "Err"
    ELSE LET resp == from_str(response.body)
         IN  IF ~resp.ok THEN "Err"
             ELSE LET b == as_i64(Index(resp.value, "ok"))
                  IN  IF ~b.some THEN "Err" ELSE IF b.n = 1 THEN "Ok" ELSE "Err"

\* chat_completion after send: the body parsed as JSON, the content defaulted
chat_completion(response) ==
    IF response.body.kind = "unreadable" \/ ~from_str(response.body).ok THEN "Err" ELSE "Ok"

\* read_url after send: error_for_status, text
read_url(response) ==
    IF error_for_status(response) \/ response.body.kind = "unreadable" THEN "Err" ELSE "Ok"

\* what the function returns for the response its send came back with
Judge(fn, response) ==
    CASE fn = "Zsxq::post" -> Zsxq_post(response)
      [] fn = "post_zsxq" -> post_zsxq(response)
      [] fn = "post_weibo" -> post_weibo(response)
      [] fn = "chat_completion" -> chat_completion(response)
      [] fn = "read_url" -> read_url(response)

NoOutcome == [ok |-> FALSE, transient |-> FALSE]

InitHttp ==
    /\ Idle
    /\ overflow_checks = FALSE
    /\ pc = "send"
    /\ call \in [fn : HttpFns, n_past_retries : {0}, tries : {0}, outcome : {NoOutcome}]
    /\ result = Value("pending")

\* the middleware's policy asks for one more attempt although none is left
SendOneRetryMore ==
    /\ pc = "send"
    /\ \E o \in SendOutcomes :
          /\ call' = [call EXCEPT !.tries = @ + 1, !.outcome = o]
          /\ pc' = IF Retrying(call.fn) /\ Transient(o) /\ call.n_past_retries <= MAX_RETRIES
                   THEN "backoff"
                   ELSE IF o.ok THEN "response" ELSE "returned"
          /\ result' = IF pc' = "returned" THEN Value("Err") ELSE result
    /\ UNCHANGED <<loop_vars, overflow_checks>>

\* send().await: one attempt of the request; the middleware, where there is
\* one, retries a transient outcome while the policy allows
Send ==
    /\ pc = "send"
    /\ \E o \in SendOutcomes :
          /\ call' = [call EXCEPT !.tries = @ + 1, !.outcome = o]
          /\ pc' = IF Retrying(call.fn) /\ Transient(o) /\ call.n_past_retries < MAX_RETRIES
                   THEN "backoff"
                   ELSE IF o.ok THEN "response" ELSE "returned"
          /\ result' = IF pc' = "returned" THEN Value("Err") ELSE result
    /\ UNCHANGED <<loop_vars, overflow_checks>>

\* the middleware sleeps for the policy's backoff and counts the retry
Backoff ==
    /\ pc = "backoff"
    /\ call' = [call EXCEPT !.n_past_retries = @ + 1]
    /\ pc' = "send"
    /\ UNCHANGED <<loop_vars, overflow_checks, result>>

\* the rest of the function, from the response to its return value
Respond ==
    /\ pc = "response"
    /\ result' = Value(Judge(call.fn, call.outcome))
    /\ pc' = "returned"
    /\ UNCHANGED <<loop_vars, overflow_checks, call>>

NextHttp ==
    \/ Send
    \/ Backoff
    \/ Respond

SpecHttp == InitHttp /\ [][NextHttp]_vars

(***************************************************************************)
(* Properties                                                              *)
(***************************************************************************)
\* every enabled publisher has been attempted once, no disabled one at all
AttemptedOnce == \A p \in PublisherSet : attempts[p] = IF p \in config.enabled THEN 1 ELSE 0

\* the contexts of the two record-store errors
StoreErrors == {"While checking repo posted", "While marking repo posted"}

\* this step opens a publish round for candidate c
RoundOpens(c) ==
    /\ attempts = NoAttempts
    /\ attempts' # attempts
    /\ repos[idx] = c

\* C1: in one process, two publish rounds of the same repository are at least
\* post_ttl seconds apart, in every execution, store failures included.
C1_NoDuplicateWithinTtl ==
    [][\A c \in CandidateIds :
          (RoundOpens(c) /\ round_at[c] # -1) => now - round_at[c] >= config.post_ttl]_vars

\* the existence check returned false for the candidate at position i
Opened(i) == <<"is_repo_posted", i, "false">> \in ops

\* every enabled publisher has been attempted for the candidate at position i
AllAttempted(i) == \A p \in config.enabled : <<"publish", i, p>> \in ops

\* the marker write has been attempted for the candidate at position i
MarkAttempted(i) == \E r \in {"Ok", "Err"} : <<"mark_posted_repo", i, r>> \in ops

\* C2: the marker write of a candidate is attempted only after the existence
\* check returned false and every enabled publisher has been attempted; and
\* once every enabled publisher has been attempted and main_loop has left the
\* publisher blocks, the marker write is attempted, whatever the publishers
\* returned (also when none is enabled).
C2_MarkAfterAllPublishers ==
    pc # "call" =>
    \A i \in 1..Len(repos) :
        /\ MarkAttempted(i) => Opened(i) /\ AllAttempted(i)
        /\ (Opened(i) /\ AllAttempted(i) /\ ~(i = idx /\ pc \in PublisherSet))
              => MarkAttempted(i) \/ (i = idx /\ pc = "mark_posted_repo")

\* all six publishers are enabled, each of them failed, and the marker was written
C2_Witness ==
    /\ pc = "post_sleep"
    /\ config.enabled = PublisherSet
    /\ errors = Len(Publishers)
    /\ <<"mark_posted_repo", idx, "Ok">> \in ops

\* C3: in a publish round the publishers are attempted in order, each enabled
\* one exactly once and no disabled one, whatever the earlier ones returned;
\* main_loop reaches the marker write with every enabled publisher attempted,
\* and only a record-store error ends a cycle before its last candidate.
C3_EveryPublisherOnce ==
    /\ \A k \in 1..Len(Publishers) :
          pc = Publishers[k] =>
            \A j \in 1..Len(Publishers) :
               attempts[Publishers[j]] =
                  IF j < k /\ Publishers[j] \in config.enabled THEN 1 ELSE 0
    /\ pc \in {"mark_posted_repo", "post_sleep"} => AttemptedOnce
    /\ (pc = "fetch_sleep" /\ idx <= Len(repos)) =>
          \/ res = "While checking repo posted" /\ attempts = NoAttempts
          \/ res = "While marking repo posted" /\ AttemptedOnce

\* all six publishers are enabled, at least two of them failed, and all six
\* have been attempted when the marker write is reached
C3_Witness ==
    /\ pc = "mark_posted_repo"
    /\ config.enabled = PublisherSet
    /\ errors >= 2
    /\ AttemptedOnce

\* C4: a denylisted candidate causes no store read, no store write and no
\* publish attempt: the denylist test comes first.
C4_DenylistedSkipped ==
    /\ \A e \in ops : ~contains(config.denylist, Candidates[repos[e[2]]])
    /\ pc \in PublisherSet \cup {"is_repo_posted", "mark_posted_repo", "post_sleep"}
          => ~contains(config.denylist, repo)

\* a cycle over a denylisted candidate followed by one that was published
C4_Witness ==
    /\ pc = "fetch_sleep"
    /\ Len(repos) = 2
    /\ idx = 3
    /\ contains(config.denylist, Candidates[repos[1]])
    /\ \E p \in PublisherSet : <<"publish", 2, p>> \in ops

C6_NeitherPublishedNorMarked ==
    \A i \in 1..Len(repos) :
        (<<"is_repo_posted", i, "Err">> \in ops \/ <<"mark_posted_repo", i, "Err">> \in ops)
            => /\ \A p \in PublisherSet : <<"publish", i, p>> \notin ops
               /\ <<"mark_posted_repo", i, "Ok">> \notin ops

\* C7: a failed fetch_repos ends the cycle without any store read, store
\* write or publish; main logs the error once and the next cycle starts
\* fetch_interval seconds after the failed fetch.
C7_FetchErrorEndsCycleOnly ==
    res = "While fetching repo" =>
        /\ ops = {}
        /\ repos = <<>>
        /\ attempts = NoAttempts
        /\ \/ pc = "fetch_sleep" /\ errors = 0 /\ now = fetched_at
           \/ pc = "fetch" /\ errors = 1 /\ now = fetched_at + config.fetch_interval

\* a later cycle's fetch failed, and the loop is back at fetch_repos
C7_Witness ==
    /\ res = "While fetching repo"
    /\ pc = "fetch"
    /\ fetched_at > 0
    /\ errors = 1

\* C8: no recoverable error, a composition (budget arithmetic) error
\* included, ends the process once the loop is entered.
C8_NeverTerminates == pc # "panicked"

\* C9: for a raw description D and a budget B >= 4 the bounded description
\* has at most B clusters, is D when D has fewer than B clusters, and is
\* otherwise the first B - 4 clusters of D followed by " ...", B clusters long.
C9_TruncationLaw ==
    (pc = "returned" /\ call.fn = "make_post_description" /\ call.length_left >= 4) =>
        LET D == IF call.ai.ok THEN call.ai.text ELSE <<>>
            B == call.length_left
        IN  /\ ~result.panic
            /\ Len(result.value) <= B
            /\ Len(D) < B => result.value = D
            /\ Len(D) >= B =>
                  /\ result.value = SubSeq(D, 1, B - 4) \o <<" ", ".", ".", ".">>
                  /\ Len(result.value) = B

\* a description of exactly B clusters, B >= 4, has been bounded
C9_Witness ==
    /\ pc = "returned"
    /\ call.fn = "make_post_description"
    /\ call.length_left >= 4
    /\ call.ai.ok
    /\ Len(call.ai.text) = call.length_left

\* the length of a composed post in grapheme clusters, the url counted at
\* its fixed width for Mastodon
PostLength(platform, r, content) ==
    IF platform = "mastodon"
    THEN Len(content) - Len(make_post_url(r)) + MASTODON_FIXED_URL_LENGTH
    ELSE Len(content)

\* C10: every composed post is at most its platform's total budget long.
C10_WithinBudget ==
    (pc = "returned" /\ call.fn = "compose" /\ ~result.panic) =>
        PostLength(call.platform, call.repo, result.value) <= Budget(call.platform)

\* the bytes a composer subtracts from its budget: prefix, stars badge and
\* url block (the fixed width for Mastodon)
Overhead(platform, r) ==
    ByteLen(make_post_prefix(r)) + ByteLen(make_post_stars(r)) +
        CASE platform = "mastodon" -> MASTODON_FIXED_URL_LENGTH
          [] platform = "weibo" -> ByteLen(weibo_url(r))
          [] OTHER -> ByteLen(make_post_url(r))

\* the post of a platform around a given description
PostWith(platform, r, description) ==
    CASE platform = "weibo" ->
            make_post_stars(r) \o make_post_prefix(r) \o description
                \o <<"LF", "LF">> \o weibo_url(r)
      [] platform = "zsxq" ->
            make_post_prefix(r) \o description \o make_post_stars(r)
                \o <<"LF", "LF">> \o make_post_url(r)
      [] OTHER ->
            make_post_prefix(r) \o description \o make_post_stars(r) \o make_post_url(r)

\* C11: when prefix, stars badge and url block are longer than the platform's
\* budget, the composer neither panics nor wraps the remaining budget: it
\* returns the post with an empty description (the composers have no error
\* return of their own).
C11_UnderflowContained ==
    (/\ pc = "returned"
     /\ call.fn = "compose"
     /\ Overhead(call.platform, call.repo) > Budget(call.platform))
        => /\ ~result.panic
           /\ result.value = PostWith(call.platform, call.repo, <<>>)

\* C12: when the summarization fails, the composer returns the post with an
\* empty description, for every platform and every repository.
C12_SummarizationFailureStillPosts ==
    (pc = "returned" /\ call.fn = "compose" /\ ~call.ai.ok)
        => /\ ~result.panic
           /\ result.value = PostWith(call.platform, call.repo, <<>>)

\* C13: the key of a repository exists in the record store exactly when a
\* marker write for it succeeded less than post_ttl seconds ago; a candidate
\* whose existence check returned false has no such marker, one whose check
\* returned true has been marked.
C13_MarkerLifetime ==
    /\ \A k \in Keys :
          exists(k) <=> (marked_age[k] # -1 /\ marked_age[k] < config.post_ttl)
    /\ (pc \in PublisherSet /\ Opened(idx)) => ~exists(Key(repo))
    /\ \A i \in 1..Len(repos) :
          <<"is_repo_posted", i, "true">> \in ops
              => marked_age[Key(Candidates[repos[i]])] # -1

\* a repository that was marked, whose marker expired, and which is taken as
\* new again
C13_Witness ==
    /\ pc = "mark_posted_repo"
    /\ marked_age[Key(repo)] # -1
    /\ marked_age[Key(repo)] >= config.post_ttl
    /\ Opened(idx)

\* C14: the check-then-set is not atomic: an existence check writes nothing,
\* and a key is written only by the marker write that follows the publisher
\* blocks; so two instances can both see the same repository unmarked and
\* both publish it within one TTL window.
C14_CheckThenSetNotAtomic ==
    [][/\ (pc = "is_repo_posted" /\ pc' # pc) => store' = store
       /\ (peer.pc = "is_repo_posted" /\ peer'.pc # peer.pc) => store' = store
       /\ \A k \in Keys :
             store'[k] > store[k] =>
                \/ pc = "mark_posted_repo" /\ pc' = "post_sleep"
                \/ peer.pc = "mark_posted_repo" /\ peer'.marked]_vars

\* both instances saw the repository unmarked, both published it less than
\* post_ttl seconds apart, and both marker writes succeeded
C14_Witness ==
    /\ peer.pc = "done"
    /\ peer.marked
    /\ peer.round_at # -1
    /\ pc = "post_sleep"
    /\ Candidates[repos[idx]] = Shared
    /\ <<"is_repo_posted", idx, "false">> \in ops
    /\ <<"mark_posted_repo", idx, "Ok">> \in ops
    /\ round_at[repos[idx]] # -1
    /\ round_at[repos[idx]] - peer.round_at < config.post_ttl
    /\ peer.round_at - round_at[repos[idx]] < config.post_ttl

\* p occurs in s: s is some clusters, then p, then some clusters
IsInfix(p, s) ==
    \E i \in 0..Len(s), j \in 0..Len(s) :
        /\ i + Len(p) + j = Len(s)
        /\ s = SubSeq(s, 1, i) \o p \o SubSeq(s, Len(s) - j + 1, Len(s))

\* the entries of a rule list
Entries(v) == {v[i] : i \in 1..Len(v)}

\* C15: DenylistConfig::contains is true exactly when names has the
\* candidate's name, or authors has its author, or some descriptions entry,
\* in lower case, occurs in the candidate's description in lower case; three
\* empty lists match no candidate.
C15_DenylistSemantics ==
    (pc = "returned" /\ call.fn = "contains") =>
        LET d == call.denylist
            r == call.repo
        IN  /\ result.value <=>
                  \/ r.name \in Entries(d.names)
                  \/ r.author \in Entries(d.authors)
                  \/ \E e \in Entries(d.descriptions) :
                         IsInfix(to_lowercase(e), to_lowercase(r.description))
            /\ (d.names = <<>> /\ d.authors = <<>> /\ d.descriptions = <<>>)
                  => ~result.value

\* a candidate excluded by a descriptions rule alone, which matches only
\* when case is ignored
C15_Witness ==
    /\ pc = "returned"
    /\ call.fn = "contains"
    /\ call.denylist.names = <<>>
    /\ call.denylist.authors = <<>>
    /\ result.value
    /\ \A e \in Entries(call.denylist.descriptions) : ~IsInfix(e, call.repo.description)

\* C16: every error that occurs is logged: when the summarization of a
\* description fails, the call that needed it leaves an error line in the log.
C16_EveryErrorLogged ==
    (/\ pc = "returned"
     /\ call.fn \in {"make_post_description", "compose"}
     /\ ~call.ai.ok)
        => errors > 0

\* where main_loop stands when step k of post_bluesky is about to be performed
StepAt(k) == IF k = 1 THEN "bluesky" ELSE BlueskySteps[k]

\* C20: post_bluesky performs preview-image fetch, session creation, blob
\* upload and record creation in this order, each only after the earlier ones
\* succeeded; a failing step is followed by the return to main_loop and by no
\* later step; main_loop logs the failure, goes on with zsxq, weibo and
\* telegram_bot and reaches the marker write with each enabled one attempted.
C20_BlueskyUnitOfWork ==
    [][/\ \A k \in 2..Len(BlueskySteps) :
             (pc' = StepAt(k) /\ pc # pc')
                => pc = StepAt(k - 1) /\ bsky'.ok /\ bsky'.steps = k - 1
       /\ bsky'.steps # bsky.steps
             => \/ bsky'.steps = bsky.steps + 1 /\ pc = StepAt(bsky'.steps)
                \/ bsky' = NoBluesky /\ pc = "bluesky_returned"
       /\ (bsky.ok /\ ~bsky'.ok) => pc' = "bluesky_returned"
       /\ (pc = "bluesky_returned" /\ pc' # pc)
             => /\ pc' = "zsxq"
                /\ attempts'["bluesky"] = 1
                /\ res' = res
                /\ errors' = IF bsky.ok THEN errors ELSE errors + 1
       /\ pc' = "mark_posted_repo"
             => \A p \in {"zsxq", "weibo", "telegram_bot"} \cap config.enabled :
                    attempts'[p] = 1]_vars

\* session creation failed: post_bluesky returns with two steps performed
C20_Witness ==
    /\ pc = "bluesky_returned"
    /\ ~bsky.ok
    /\ bsky.steps = 2

\* C17: fetch_repos is called again only after main has slept fetch_interval
\* seconds: every end of a cycle (completed, fetch error, store error) leads
\* to that one sleep and the sleep leads to the fetch, so two fetches are at
\* least fetch_interval apart.
C17_InterCyclePacing ==
    [][/\ (pc' = "fetch" /\ pc # "fetch")
             => pc = "fetch_sleep" /\ now' = now + config.fetch_interval
       /\ (pc = "fetch_sleep" /\ pc' # pc) => pc' = "fetch"
       /\ (pc = "fetch" /\ pc' # pc) => now' = now /\ fetched_at' = now
       /\ (pc # "fetch" /\ pc' # "fetch") => fetched_at' = fetched_at
       /\ (pc' = "fetch" /\ fetched_at' # -1)
             => now' >= fetched_at' + config.fetch_interval]_vars

\* a cycle ended with a store error, main has slept and is about to fetch again
C17_Witness ==
    /\ pc = "fetch"
    /\ res = "While marking repo posted"
    /\ fetched_at # -1
    /\ now >= fetched_at + config.fetch_interval

\* the place of an event in the body of the for loop
Stage(p) ==
    CASE p = "denylist" -> 1
      [] p = "is_repo_posted" -> 2
      [] p = "twitter" -> 3
      [] p = "mastodon" -> 4
      [] p \in {"bluesky", "create_session", "upload_blob", "create_record",
                "bluesky_returned"} -> 5
      [] p = "zsxq" -> 6
      [] p = "weibo" -> 7
      [] p = "telegram_bot" -> 8
      [] p = "mark_posted_repo" -> 9
      [] p = "post_sleep" -> 10
      [] OTHER -> 0

\* C18: candidates are taken one at a time in the order of the fetch; for one
\* candidate the events come in the order denylist test, existence check,
\* twitter, mastodon, bluesky, zsxq, weibo, telegram_bot (only enabled ones
\* are attempted), marker write, post_interval sleep; every event belongs to
\* the candidate the loop is at, and every earlier candidate that was taken
\* as new has had its marker written.
C18_EventOrder ==
    [][/\ (Stage(pc) > 0 /\ Stage(pc') > 0 /\ idx' = idx /\ pc' # pc)
             => \/ Stage(pc') = Stage(pc) + 1
                \/ Stage(pc') = 5 /\ Stage(pc) = 5
       /\ idx' # idx
             => \/ /\ idx' = idx + 1
                   /\ pc \in {"denylist", "is_repo_posted", "post_sleep"}
                   /\ pc' = IF idx' <= Len(repos) THEN "denylist" ELSE "fetch_sleep"
                \/ pc = "fetch" /\ idx' = 1
       /\ \A e \in ops' \ ops :
             /\ e[2] = idx
             /\ e[1] = "is_repo_posted" => pc = "is_repo_posted"
             /\ e[1] = "publish" => Stage(pc) = Stage(e[3]) /\ e[3] \in config.enabled
             /\ e[1] = "mark_posted_repo" => pc = "mark_posted_repo"
       /\ (pc = "post_sleep" /\ pc' # pc) => now' = now + config.post_interval
       /\ \A i \in 1..Len(repos') :
             (i < idx' /\ <<"is_repo_posted", i, "false">> \in ops')
                => <<"mark_posted_repo", i, "Ok">> \in ops']_vars

\* two candidates have gone through every event, one after the other, with
\* all six publishers enabled
C18_Witness ==
    /\ pc = "post_sleep"
    /\ idx = 2
    /\ config.enabled = PublisherSet
    /\ \A i \in 1..2 :
          /\ <<"is_repo_posted", i, "false">> \in ops
          /\ \A q \in PublisherSet : <<"publish", i, q>> \in ops
          /\ <<"mark_posted_repo", i, "Ok">> \in ops

\* the candidate at position i of this cycle has had a publish round
Published(i) == \E q \in PublisherSet : <<"publish", i, q>> \in ops

\* C19: within one cycle, when the publish round of a candidate opens, the
\* round of every candidate published earlier in the cycle lies at least one
\* post_interval sleep back, however many candidates were fetched.
C19_InterPostPacing ==
    [][(attempts = NoAttempts /\ attempts' # attempts)
          => \A i \in 1..(idx - 1) :
                Published(i) => now - round_at[repos[i]] >= config.post_interval]_vars

\* two different candidates have been published in one cycle, the second one
\* post_interval after the first
C19_Witness ==
    /\ idx = 2
    /\ Len(repos) >= 2
    /\ repos[1] # repos[2]
    /\ Published(1)
    /\ Published(2)
    /\ round_at[repos[2]] = round_at[repos[1]] + config.post_interval

\* the place of a position of the loop body in the order the body is run in
Rank(p) ==
    CASE p = "denylist" -> 1
      [] p = "is_repo_posted" -> 2
      [] p = "twitter" -> 3
      [] p = "mastodon" -> 4
      [] p = "bluesky" -> 5
      [] p = "create_session" -> 6
      [] p = "upload_blob" -> 7
      [] p = "create_record" -> 8
      [] p = "bluesky_returned" -> 9
      [] p = "zsxq" -> 10
      [] p = "weibo" -> 11
      [] p = "telegram_bot" -> 12
      [] p = "mark_posted_repo" -> 13
      [] p = "post_sleep" -> 14
      [] OTHER -> 0

\* how far the cycle has got: bounded by the length of the fetch result
Progress(i, p) == IF Rank(p) = 0 THEN 0 ELSE 14 * i + Rank(p)

\* C21: every step inside a cycle moves the cycle forward (so a cycle over a
\* finite fetch result ends after finitely many steps), the end of a cycle
\* leads to the fetch_interval sleep and from there to the next fetch, and no
\* step leaves the loop for a state from which no fetch follows.
C21_LoopProgress ==
    [][/\ (Rank(pc) > 0 /\ Rank(pc') > 0) => Progress(idx', pc') > Progress(idx, pc)
       /\ (Rank(pc) > 0 /\ Rank(pc') = 0) => pc' = "fetch_sleep"
       /\ pc = "fetch_sleep" => pc' = "fetch"
       /\ pc = "fetch" => pc' \in {"denylist", "fetch_sleep"}]_vars

\* C22 as claimed: a call through the retry middleware is attempted at most
\* 3 times in total.
C22_AtMostThreeAttempts == Retrying(call.fn) => call.tries <= 3

\* C22: a call through the retry middleware (Zsxq::post, chat_completion,
\* read_url) is attempted at most 4 times in total, the first attempt and 3
\* retries; when the fourth attempt fails transiently as well, no further
\* attempt is made and the failure goes to the caller: a transport error as
\* Err, a failing response as the response the function judges.
C22_AtMostFourAttempts ==
    [][(pc = "send" /\ Retrying(call.fn))
          => /\ call'.tries <= 4
             /\ (call'.tries = 4 /\ Transient(call'.outcome))
                   => /\ pc' = IF call'.outcome.ok THEN "response" ELSE "returned"
                      /\ ~call'.outcome.ok => result' = Value("Err")]_vars

\* four attempts have failed with a transient transport error and the call
\* has returned the error
C22_Witness ==
    /\ pc = "returned"
    /\ Retrying(call.fn)
    /\ call.tries = 4
    /\ call.n_past_retries = 3
    /\ ~call.outcome.ok
    /\ call.outcome.transient
    /\ result = Value("Err")

\* the body is the text of a JSON object whose field key holds exactly v
Confirms(body, key, v) ==
    /\ body.kind = "json"
    /\ body.value.kind = "object"
    /\ key \in DOMAIN body.value.fields
    /\ body.value.fields[key] = v

\* the function has got a response body to judge: Zsxq::post takes none from
\* a response with an error status
GotBody ==
    /\ call.outcome.ok
    /\ call.fn = "Zsxq::post" => call.outcome.status < 400

C23_ContentWithinBudget ==
    (pc = "returned" /\ call.fn = "content_by_repo") =>
       LET description == content_description(call.repo, call.ai, overflow_checks)
           left == content_budget(call.repo, call.ai, overflow_checks)
       IN  /\ ~description.panic
           /\ description.requested >= 0
           /\ ByteLen(description.value) <= description.requested
                 => /\ ~left.panic
                    /\ left.value >= 0
                    /\ ~result.panic
                    /\ Len(result.value) <= MAX_LENGTH

\* the existence check of position i came back true
Skipped(i) == <<"is_repo_posted", i, "true">> \in ops

\* C24: when the existence check returns true the loop goes on to the next
\* candidate with the store and the attempts as they were; a skipped position
\* gets no publish and no marker write; and a marker's expiry changes only by
\* a marker write of main_loop (to post_ttl from then) or by running out, so
\* seeing the repository again does not renew it.
C24_SkipLeavesStore ==
    [][/\ (pc = "is_repo_posted" /\ <<"is_repo_posted", idx, "true">> \in ops')
             => /\ store' = store
                /\ attempts' = attempts
                /\ idx' = idx + 1
                /\ pc' = NextRepo(idx')
       /\ \A e \in ops' :
             e[1] \in {"publish", "mark_posted_repo"}
                => <<"is_repo_posted", e[2], "true">> \notin ops'
       /\ \A k \in Keys :
             store'[k] # store[k]
                => \/ /\ pc = "mark_posted_repo"
                      /\ k = Key(repo)
                      /\ store'[k] = now + config.post_ttl
                   \/ /\ store'[k] = 0
                      /\ store[k] <= now']_vars

\* a repository marked one second ago has been seen again and skipped, and
\* its marker still runs out post_ttl after the write
C24_Witness ==
    \E i \in 1..Len(repos) :
       /\ Skipped(i)
       /\ marked_age[Key(Candidates[repos[i]])] = 1
       /\ config.post_ttl = 2
       /\ store[Key(Candidates[repos[i]])] = now + 1

\* C25: for every budget from 0 to 3 and every outcome of the summarization,
\* the failed one included, make_post_description returns without a panic a
\* description of at most as many grapheme clusters as the budget, which an
\* underflow of the budget minus 4 would not give.
C25_SmallBudgets ==
    (pc = "returned" /\ call.fn = "make_post_description" /\ call.length_left <= 3) =>
        /\ ~result.panic
        /\ Len(result.value) <= call.length_left

====
